---- MODULE Spec2Model ----
(***************************************************************************)
(* A model of SaltGenResource.py: the command-line parser                  *)
(* (SaltNodesCommandParser) and the resource generator                     *)
(* (ResourceGenerator.run) that maps Salt Mine grains to Rundeck nodes.    *)
(*                                                                         *)
(* Strings that the program takes apart (grain paths, output keys) are     *)
(* sequences of tokens: a token is either a name fragment without special  *)
(* characters ("env", "a") or one special character (":", ".", "_").       *)
(* <<"a", ":", "b">> is the Python string 'a:b'.  Grain values are tagged  *)
(* by their Python type: null (None), str, unicode, int, list, dict.       *)
(***************************************************************************)
EXTENDS Integers, Sequences, FiniteSets, TLC

VARIABLES
    pc,            \* position of the process: start, run, server, loop, returned, done, exited, failed
    argv,          \* the command line and the environment the process was started with
    options,       \* self.options after parse_args
    static,        \* self.static: the key=value pairs of the command line
    mine,          \* the mapping returned by caller.cmd('mine.get', ...)
    mine_calls,    \* how many times mine.get was called
    local_grains,  \* salt.loader.grains(caller.opts)
    resources,     \* the dict built by run()
    todo,          \* minions of mine.iteritems() not yet visited
    exit_code,     \* <<status>> once the process has exited, <<>> while it runs
    error,         \* the exception that ended the process, "" when none
    stdout         \* what was printed: NoOutput, or the resource set

vars == <<pc, argv, options, static, mine, mine_calls, local_grains,
          resources, todo, exit_code, error, stdout>>

----------------------------------------------------------------------------
(* Bounds of the model *)

MaxAttrs == 2
MaxTags == 2

----------------------------------------------------------------------------
(* Python values *)

None == [t |-> "null", v |-> ""]
Str(s) == [t |-> "str", v |-> s]
Uni(s) == [t |-> "unicode", v |-> s]
Num(n) == [t |-> "int", v |-> n]
List(s) == [t |-> "list", v |-> s]
Dict(f) == [t |-> "dict", v |-> f]

\* A one-fragment string.
K(s) == <<s>>

EmptyDict == <<>>

\* dict.update: the entries of d2 replace those of d1.
Update(d1, d2) ==
    [k \in (DOMAIN d1) \cup (DOMAIN d2) |-> IF k \in DOMAIN d2 THEN d2[k] ELSE d1[k]]

\* A dict comprehension keeping the keys outside `ignore`.
Without(d, ignore) == [k \in (DOMAIN d) \ ignore |-> d[k]]

\* str.replace(old, new) for a one-character old and new.
Replace(s, old, new) == [i \in 1..Len(s) |-> IF s[i] = old THEN new ELSE s[i]]

\* str.split(d) for a one-character delimiter d.
RECURSIVE SplitFrom(_, _, _, _)
SplitFrom(s, d, i, cur) ==
    IF i > Len(s) THEN <<cur>>
    ELSE IF s[i] = d THEN <<cur>> \o SplitFrom(s, d, i + 1, <<>>)
    ELSE SplitFrom(s, d, i + 1, Append(cur, s[i]))

Split(s, d) == SplitFrom(s, d, 1, <<>>)

\* hasattr(value, '__iter__') in Python 2: true of lists and dicts, false of
\* str, unicode, numbers and None.
HasIter(value) == value.t \in {"list", "dict"}

\* unicode.encode('utf-8')
Encode(value) == Str(value.v)

----------------------------------------------------------------------------
(* salt.utils.traverse_dict_and_list, as called by the program *)

\* Walks `data` along the parts of the split path.  In a list, a part that is
\* not a number (no path of the model is one) is looked up in the first
\* embedded dict that has it; anything else than a dict holding the part
\* (KeyError, TypeError) yields the default.
RECURSIVE TraverseParts(_, _, _)
TraverseParts(data, parts, default) ==
    IF parts = <<>> THEN data
    ELSE LET each == Head(parts) IN
         IF data.t = "list"
         THEN LET idxs == {i \in 1..Len(data.v) :
                              data.v[i].t = "dict" /\ each \in DOMAIN data.v[i].v} IN
              IF idxs = {} THEN default
              ELSE LET first == CHOOSE i \in idxs : \A j \in idxs : i <= j IN
                   TraverseParts(data.v[first].v[each], Tail(parts), default)
         ELSE IF data.t = "dict" /\ each \in DOMAIN data.v
         THEN TraverseParts(data.v[each], Tail(parts), default)
         ELSE default

traverse_dict_and_list(grains, item, default, delimiter) ==
    TraverseParts(Dict(grains), Split(item, delimiter), default)

----------------------------------------------------------------------------
(* SaltNodesCommandParser *)

hostname == K("hostname")
osName == K("osName")
osVersion == K("osVersion")
osFamily == K("osFamily")
osArch == K("osArch")
tagsKey == K("tags")
username == K("username")
description == K("description")

ignore_attributes == {hostname, osName, osVersion, osFamily, osArch, tagsKey}
ignore_servernode == {username, description}

\* The filter left out: every configured attribute is kept.
RemoveConflictingNothing(attributes) == attributes

\* [x for x in self.options.attributes if x not in self.ignore_attributes]
RemoveConflicting(attributes) == SelectSeq(attributes, LAMBDA x : x \notin ignore_attributes)

\* The IndexError never raised: the target is taken as given.
TargetAssumed(cl) == TRUE

\* self.args[0] exists: the try block of _mixin_after_parsed raises no
\* IndexError.
TargetGiven(cl) == cl.target

\* os.path.isfile(self.get_config_file_path())
ConfigFound(cl) == cl.config

----------------------------------------------------------------------------
(* ResourceGenerator *)

_server_node_name == "localhost"
ServerNodeDescription == Str("Rundeck server node")

\* The Windows entry of the map left out.
_os_family_linux_only(value) == IF value = Str("Linux") THEN Str("unix") ELSE value

_os_family(value) ==
    IF value = Str("Linux") THEN Str("unix")
    ELSE IF value = Str("Windows") THEN Str("windows")
    ELSE value

_os_arch(value) ==
    IF value = Str("x86_64") THEN Str("amd64")
    ELSE value

\* The output key of an attribute: item.replace(':', '_').
AttributeKey(item) == Replace(item, ":", "_")

\* The nested value passed through instead of the TypeError.
_attribute_from_grain_unchecked(item, grains, delimiter) ==
    LET value == traverse_dict_and_list(grains, item, Str(""), delimiter) IN
    [raised |-> FALSE, key |-> Replace(item, ":", "_"),
     value |-> IF value.t = "unicode" THEN Encode(value) ELSE value]

\* _attribute_from_grain: (key, value), or raised = TRUE for the TypeError.
_attribute_from_grain(item, grains, delimiter) ==
    LET key == AttributeKey(item)
        value == traverse_dict_and_list(grains, item, Str(""), delimiter) IN
    IF value.t = "unicode" THEN [raised |-> FALSE, key |-> key, value |-> Encode(value)]
    ELSE IF HasIter(value) THEN [raised |-> TRUE, key |-> key, value |-> None]
    ELSE [raised |-> FALSE, key |-> key, value |-> value]

\* _create_attributes: the items in list order, a later item replacing an
\* earlier one with the same key; an item that raised TypeError is skipped.
RECURSIVE CreateAttributesFrom(_, _, _, _)
CreateAttributesFrom(attributes, items, grains, delimiter) ==
    IF items = <<>> THEN attributes
    ELSE LET r == _attribute_from_grain(Head(items), grains, delimiter) IN
         CreateAttributesFrom(
             IF r.raised THEN attributes ELSE Update(attributes, (r.key :> r.value)),
             Tail(items), grains, delimiter)

_create_attributes(items, grains, delimiter) ==
    CreateAttributesFrom(EmptyDict, items, grains, delimiter)

\* The nested elements not skipped.
NestedTagsUnfiltered(seq) ==
    {IF seq[i].t = "unicode" THEN Encode(seq[i]) ELSE seq[i] : i \in 1..Len(seq)}

\* The tags of the elements of a sequence value.
NestedTags(seq) ==
    {IF seq[i].t = "unicode" THEN Encode(seq[i]) ELSE seq[i] :
        i \in {j \in 1..Len(seq) : ~HasIter(seq[j])}}

\* _tags_from_grain: the set of tags, or raised = TRUE for the TypeError.
_tags_from_grain(item, grains, delimiter) ==
    LET value == traverse_dict_and_list(grains, item, None, delimiter) IN
    IF value.t = "null" THEN [raised |-> FALSE, tags |-> {}]
    ELSE IF value.t = "unicode" THEN [raised |-> FALSE, tags |-> {Encode(value)}]
    ELSE IF value.t = "str" THEN [raised |-> FALSE, tags |-> {value}]
    ELSE IF value.t = "dict" THEN [raised |-> TRUE, tags |-> {}]
    ELSE IF HasIter(value) THEN [raised |-> FALSE, tags |-> NestedTags(value.v)]
    ELSE [raised |-> FALSE, tags |-> {value}]

\* list(a_set): the elements of a set, each once, in some order.
RECURSIVE SetToList(_)
SetToList(S) ==
    IF S = {} THEN <<>>
    ELSE LET x == CHOOSE y \in S : TRUE IN <<x>> \o SetToList(S \ {x})

\* The set accumulated by _create_tags: a tag path that raised adds nothing.
TagSet(items, grains, delimiter) ==
    UNION {LET r == _tags_from_grain(item, grains, delimiter) IN
           IF r.raised THEN {} ELSE r.tags : item \in items}

_create_tags(items, grains, delimiter) == SetToList(TagSet(items, grains, delimiter))

----------------------------------------------------------------------------
(* The inputs of the model: command lines, mine results, local grains *)

fqdn == K("fqdn")
kernel == K("kernel")
kernelrelease == K("kernelrelease")
osarch == K("osarch")
env == K("env")
roles == K("roles")
a_colon_b == <<"a", ":", "b">>
a_under_b == <<"a", "_", "b">>
a_dot_b == <<"a", ".", "b">>

\* A Linux host: a unicode scalar, a list with nested and repeated elements,
\* a nested mapping.
LinuxGrains ==
    (fqdn :> Str("web1.example.com")) @@ (kernel :> Str("Linux")) @@
    (kernelrelease :> Str("5.4.0")) @@ (osarch :> Str("x86_64")) @@
    (env :> Uni("prod")) @@ (username :> Str("root")) @@
    (roles :> List(<<Str("web"), Uni("web"), List(<<Str("x")>>),
                     Dict((K("k") :> Str("v"))), Str("db")>>)) @@
    (K("a") :> Dict((K("b") :> Str("1"))))

\* A Windows host: a mapping, a scalar tag source, a grain named a_b, a list
\* with an embedded dict, a list under username.
WindowsGrains ==
    (fqdn :> Str("win1.example.com")) @@ (kernel :> Str("Windows")) @@
    (kernelrelease :> Str("10")) @@ (osarch :> Str("AMD64")) @@
    (env :> Dict((K("tier") :> Str("gold")))) @@ (roles :> Str("solo")) @@
    (a_under_b :> Str("2")) @@
    (K("a") :> List(<<Str("z"), Dict((K("b") :> Num(7)))>>)) @@
    (username :> List(<<Str("SYSTEM")>>))

\* A SunOS host: a null, a mapping as tag source, a nested list with a null
\* element, a grain whose name holds a colon.
SunGrains ==
    (fqdn :> Str("sun1.example.com")) @@ (kernel :> Str("SunOS")) @@
    (kernelrelease :> Str("5.11")) @@ (osarch :> Str("i386")) @@
    (env :> None) @@ (roles :> Dict((K("r") :> Str("v")))) @@
    (K("a") :> Dict((K("b") :> List(<<Str("p"), None>>)))) @@
    (a_colon_b :> Str("flat"))

\* A snapshot without the osarch grain.
BrokenGrains ==
    (fqdn :> Str("old1.example.com")) @@ (kernel :> Str("Linux")) @@
    (kernelrelease :> Str("2.6")) @@ (env :> Str("dev"))

Snapshots == {LinuxGrains, WindowsGrains, SunGrains, BrokenGrains}
LocalSnapshots == {LinuxGrains, WindowsGrains, SunGrains, BrokenGrains}

\* A mine result: some hosts, among them possibly one whose id is localhost.
MineResults ==
    {EmptyDict} \cup
    {("web1" :> g) : g \in Snapshots} \cup
    {("localhost" :> WindowsGrains)} \cup
    {("web1" :> g) @@ ("localhost" :> WindowsGrains) : g \in Snapshots}

AttrPaths == {hostname, username, env, a_colon_b, a_under_b, a_dot_b}
TagPaths == {roles, env, a_colon_b}
Delimiters == {":", "."}
Users == {"rundeck"}

RECURSIVE ListsOver(_, _)
\* The lists without repetition of at most n elements of S, in every order:
\* the -a option is parsed into a set, then filtered into a list.
ListsOver(S, n) ==
    IF n = 0 THEN {<<>>}
    ELSE LET shorter == ListsOver(S, n - 1) IN
         shorter \cup {Append(l, x) : l \in {m \in shorter : Len(m) = n - 1},
                                       x \in S} 

NoRepeat(l) == \A i, j \in 1..Len(l) : i # j => l[i] # l[j]

AttrLists == {l \in ListsOver(AttrPaths, MaxAttrs) : NoRepeat(l)}
TagSets == {T \in SUBSET TagPaths : Cardinality(T) <= MaxTags}

StaticSets ==
    { EmptyDict,
      (env :> Str("qa")) @@ (hostname :> Str("evil")) @@ (tagsKey :> Str("t")),
      (username :> Str("bob")) @@ (a_under_b :> Str("s")) @@ (osArch :> Str("z80")) }

CommandLines ==
    [ target : BOOLEAN, config : BOOLEAN, attributes : AttrLists, tags : TagSets,
      delimiter : Delimiters, include_server_node : BOOLEAN,
      server_node_user : Users, static : StaticSets ]

NoExit == <<>>
NoOutput == [printed |-> FALSE, doc |-> EmptyDict]
NoOptions == [attributes |-> <<>>, tags |-> {}, delimiter |-> ":",
              include_server_node |-> FALSE, server_node_user |-> "rundeck"]

----------------------------------------------------------------------------
(* The records run() builds *)

\* The keys run() reads with minion_grains[...] / local_grains[...].
MinionRequired == {fqdn, kernel, kernelrelease, osarch}
LocalRequired == {kernel, kernelrelease, osarch}

\* The grains a snapshot lacks left out instead of the KeyError.
MinionFieldsLenient(grains) ==
    LET source == (hostname :> fqdn) @@ (osName :> kernel) @@
                  (osVersion :> kernelrelease) @@ (osFamily :> kernel) @@
                  (osArch :> osarch)
        have == {k \in DOMAIN source : source[k] \in DOMAIN grains} IN
    [raised |-> FALSE,
     fields |-> [k \in have |->
                    IF k = osFamily THEN _os_family(grains[kernel])
                    ELSE IF k = osArch THEN _os_arch(grains[osarch])
                    ELSE grains[source[k]]]]

\* The dict literal of the loop body; minion_grains[...] raises KeyError for a
\* grain the snapshot lacks.
MinionFields(grains) ==
    IF MinionRequired \subseteq DOMAIN grains
    THEN [raised |-> FALSE,
          fields |-> (hostname :> grains[fqdn]) @@ (osName :> grains[kernel]) @@
                     (osVersion :> grains[kernelrelease]) @@
                     (osFamily :> _os_family(grains[kernel])) @@
                     (osArch :> _os_arch(grains[osarch]))]
    ELSE [raised |-> TRUE, fields |-> EmptyDict]

\* The dict literal of the server node.
ServerFields(grains, user) ==
    IF LocalRequired \subseteq DOMAIN grains
    THEN [raised |-> FALSE,
          fields |-> (hostname :> Str(_server_node_name)) @@
                     (description :> ServerNodeDescription) @@
                     (username :> Str(user)) @@
                     (osName :> grains[kernel]) @@
                     (osVersion :> grains[kernelrelease]) @@
                     (osFamily :> _os_family(grains[kernel])) @@
                     (osArch :> _os_arch(grains[osarch]))]
    ELSE [raised |-> TRUE, fields |-> EmptyDict]

\* The static pairs merged into a remote host's record.
MinionStatic(pairs) == Without(pairs, ignore_attributes)

\* The server node treated as a remote host: username and description pass.
ServerStaticAsMinion(pairs) == Without(pairs, ignore_attributes)

\* The static pairs merged into the server node's record.
ServerStatic(pairs) == Without(pairs, ignore_attributes \cup ignore_servernode)

\* if len(tags) > 0: record['tags'] = tags
WithTags(record, tags) ==
    IF Len(tags) > 0 THEN Update(record, (tagsKey :> List(tags))) ELSE record

\* One pass of the loop body: required fields, then attributes, then static
\* pairs, then tags.
MinionRecord(grains, opts, pairs) ==
    WithTags(
        Update(Update(MinionFields(grains).fields,
                      _create_attributes(opts.attributes, grains, opts.delimiter)),
               MinionStatic(pairs)),
        _create_tags(opts.tags, grains, opts.delimiter))

ServerRecord(grains, opts, pairs) ==
    WithTags(
        Update(Update(ServerFields(grains, opts.server_node_user).fields,
                      _create_attributes(opts.attributes, grains, opts.delimiter)),
               ServerStatic(pairs)),
        _create_tags(opts.tags, grains, opts.delimiter))

----------------------------------------------------------------------------
(* The process *)

Init ==
    /\ pc = "start"
    /\ argv \in CommandLines
    /\ options = NoOptions
    /\ static = EmptyDict
    /\ mine = EmptyDict
    /\ mine_calls = 0
    /\ local_grains = EmptyDict
    /\ resources = EmptyDict
    /\ todo = {}
    /\ exit_code = NoExit
    /\ error = ""
    /\ stdout = NoOutput

\* ResourceGenerator.__init__: parse_args runs _mixin_after_parsed, then the
\* static pairs are read from the positional arguments.
ParseArgs ==
    /\ pc = "start"
    /\ IF ~ConfigFound(argv)
       THEN /\ pc' = "exited"
            /\ exit_code' = <<-1>>
            /\ UNCHANGED <<options, static>>
       ELSE IF ~TargetGiven(argv)
       THEN /\ pc' = "exited"
            /\ exit_code' = <<42>>
            /\ UNCHANGED <<options, static>>
       ELSE /\ pc' = "run"
            /\ options' = [attributes |-> RemoveConflicting(argv.attributes),
                           tags |-> argv.tags,
                           delimiter |-> argv.delimiter,
                           include_server_node |-> argv.include_server_node,
                           server_node_user |-> argv.server_node_user]
            /\ static' = argv.static
            /\ UNCHANGED exit_code
    /\ UNCHANGED <<argv, mine, mine_calls, local_grains, resources, todo, error, stdout>>

\* caller.cmd('mine.get', ...) returns the grains of the targeted minions.
MineGet ==
    /\ pc = "run"
    /\ \E result \in MineResults : mine' = result
    /\ mine_calls' = mine_calls + 1
    /\ pc' = "server"
    /\ UNCHANGED <<argv, options, static, local_grains, resources, todo,
                   exit_code, error, stdout>>

\* caller.cmd('mine.get', ...) raises: nothing in run() catches it.
MineGetRaises ==
    /\ pc = "run"
    /\ mine_calls' = mine_calls + 1
    /\ pc' = "failed"
    /\ error' = "TransportError"
    /\ exit_code' = <<1>>
    /\ UNCHANGED <<argv, options, static, mine, local_grains, resources, todo, stdout>>

\* The special handling of the server node, then the start of the loop.
ServerNode ==
    /\ pc = "server"
    /\ IF ~options.include_server_node
       THEN /\ pc' = "loop"
            /\ todo' = DOMAIN mine
            /\ UNCHANGED <<local_grains, resources, exit_code, error>>
       ELSE \E grains \in LocalSnapshots :
            /\ local_grains' = grains
            /\ IF ~ServerFields(grains, options.server_node_user).raised
               THEN /\ resources' = (_server_node_name :>
                                        ServerRecord(grains, options, static))
                    /\ pc' = "loop"
                    /\ todo' = DOMAIN mine
                    /\ UNCHANGED <<exit_code, error>>
               ELSE /\ pc' = "failed"
                    /\ error' = "KeyError"
                    /\ exit_code' = <<1>>
                    /\ UNCHANGED <<resources, todo>>
    /\ UNCHANGED <<argv, options, static, mine, mine_calls, stdout>>

\* One iteration of `for minion, minion_grains in mine.iteritems()`.
MapMinion ==
    /\ pc = "loop"
    /\ \E minion \in todo :
        IF ~MinionFields(mine[minion]).raised
        THEN /\ resources' = Update(resources,
                                 (minion :> MinionRecord(mine[minion], options, static)))
             /\ todo' = todo \ {minion}
             /\ UNCHANGED <<pc, exit_code, error>>
        ELSE /\ pc' = "failed"
             /\ error' = "KeyError"
             /\ exit_code' = <<1>>
             /\ UNCHANGED <<resources, todo>>
    /\ UNCHANGED <<argv, options, static, mine, mine_calls, local_grains, stdout>>

\* return resources
Return ==
    /\ pc = "loop"
    /\ todo = {}
    /\ pc' = "returned"
    /\ UNCHANGED <<argv, options, static, mine, mine_calls, local_grains,
                   resources, todo, exit_code, error, stdout>>

\* print(yaml.dump(ResourceGenerator().run(), ...))
PrintYaml ==
    /\ pc = "returned"
    /\ stdout' = [printed |-> TRUE, doc |-> resources]
    /\ pc' = "done"
    /\ exit_code' = <<0>>
    /\ UNCHANGED <<argv, options, static, mine, mine_calls, local_grains,
                   resources, todo, error>>

Next ==
    \/ ParseArgs
    \/ MineGet
    \/ MineGetRaises
    \/ ServerNode
    \/ MapMinion
    \/ Return
    \/ PrintYaml

Spec == Init /\ [][Next]_vars

----------------------------------------------------------------------------
(* Vocabulary of the properties *)

Required == {hostname, osName, osVersion, osFamily, osArch}

\* run() has returned its resource set.
Returned == pc \in {"returned", "done"}

\* The minions whose loop iteration is over.
RemoteHosts ==
    IF pc \in {"loop", "returned", "done", "failed"}
    THEN ((DOMAIN mine) \ todo) \cap (DOMAIN resources)
    ELSE {}

\* The record under "localhost" is the synthesized server node's.
ServerRecordPresent ==
    /\ options.include_server_node
    /\ _server_node_name \in DOMAIN resources
    /\ _server_node_name \notin RemoteHosts

\* Every record built so far, with the grains it was built from.
Views ==
    {[server |-> FALSE, grains |-> mine[m], rec |-> resources[m]] : m \in RemoteHosts}
    \cup
    (IF ServerRecordPresent
     THEN {[server |-> TRUE, grains |-> local_grains, rec |-> resources[_server_node_name]]}
     ELSE {})

\* The records of the hosts of the mine result.
RemoteViews == {view \in Views : ~view.server}

\* The value a path resolves to, Absent when the snapshot has no such path.
Absent == [t |-> "absent", v |-> ""]
Resolve(grains, path) == traverse_dict_and_list(grains, path, Absent, options.delimiter)

\* A value as it compares in Python: u'x' == 'x'.
Plain(value) == IF value.t = "unicode" THEN Str(value.v) ELSE value

IsNested(value) == value.t \in {"list", "dict"}
IsScalar(value) == value.t \in {"str", "unicode", "int", "null"}

AttrSet == {options.attributes[i] : i \in 1..Len(options.attributes)}
ElementsOf(seq) == {seq[i] : i \in 1..Len(seq)}

\* The record of a view rebuilt from other options or static pairs.
Rebuilt(view, opts, pairs) ==
    IF view.server THEN ServerRecord(view.grains, opts, pairs)
    ELSE MinionRecord(view.grains, opts, pairs)

\* The static pairs that are excluded from a view's record.
Excluded(view) ==
    IF view.server THEN ignore_attributes \cup ignore_servernode ELSE ignore_attributes

----------------------------------------------------------------------------
(* C1: every record of the returned resource set has the five required     *)
(* fields, and a remote host's are exactly its fqdn, kernel, kernelrelease, *)
(* mapped kernel and mapped osarch grains, whatever attributes, tags and    *)
(* static pairs were configured.                                           *)
RequiredFieldsKept ==
    Returned =>
        \A m \in DOMAIN resources :
            /\ Required \subseteq DOMAIN resources[m]
            /\ m \in DOMAIN mine =>
                /\ resources[m][hostname] = mine[m][fqdn]
                /\ resources[m][osName] = mine[m][kernel]
                /\ resources[m][osVersion] = mine[m][kernelrelease]
                /\ resources[m][osFamily] = _os_family(mine[m][kernel])
                /\ resources[m][osArch] = _os_arch(mine[m][osarch])

\* A finished run whose command line named hostname as an attribute and as a
\* static pair.
RequiredFieldsKeptWitness ==
    /\ pc = "done"
    /\ hostname \in ElementsOf(argv.attributes)
    /\ hostname \in DOMAIN static
    /\ options.tags # {}
    /\ "web1" \in DOMAIN resources
    /\ resources["web1"][hostname] = Str("web1.example.com")

----------------------------------------------------------------------------
(* C2: with the server-node flag off the returned resource set has no      *)
(* entry keyed "localhost"; with it on, the entry keyed "localhost" has     *)
(* hostname "localhost", the fixed description and the configured user,    *)
(* whatever the mine result, the attribute list and the static pairs are.  *)
ServerNodeEntry ==
    Returned =>
        IF ~options.include_server_node
        THEN _server_node_name \notin DOMAIN resources
        ELSE /\ _server_node_name \in DOMAIN resources
             /\ LET rec == resources[_server_node_name] IN
                /\ {hostname, description, username} \subseteq DOMAIN rec
                /\ rec[hostname] = Str(_server_node_name)
                /\ rec[description] = ServerNodeDescription
                /\ rec[username] = Str(options.server_node_user)

----------------------------------------------------------------------------
(* C3: an invocation without a target argument ends with exit status 42    *)
(* and never calls mine.get, whether or not the configuration file exists. *)
NoTargetExits42 ==
    ~argv.target =>
        /\ mine_calls = 0
        /\ pc # "start" => (pc = "exited" /\ exit_code = <<42>>)

\* C3 as amended: without a target argument mine.get is never called and the
\* process exits at once, with status 42 when the configuration file exists
\* and with status -1 when it does not.
NoTargetExitsBeforeMine ==
    ~argv.target =>
        /\ mine_calls = 0
        /\ pc # "start" =>
            /\ pc = "exited"
            /\ exit_code = IF argv.config THEN <<42>> ELSE <<-1>>

\* An invocation without a target, with a configuration file, that has exited
\* with status 42.
NoTargetWitness ==
    /\ ~argv.target
    /\ argv.config
    /\ argv.include_server_node
    /\ pc = "exited"
    /\ exit_code = <<42>>
    /\ mine_calls = 0

----------------------------------------------------------------------------
(* C4: a static pair k=v with k outside the reserved set is in every remote *)
(* host's record as record[k] = v; a pair with a reserved key changes no    *)
(* record; for the synthesized server node username and description are     *)
(* reserved too, so such a pair is on the remote records and leaves the     *)
(* server node's record as it is without the pair.                          *)
StaticPairsMerged ==
    \A view \in Views :
        /\ \A k \in (DOMAIN static) \ Excluded(view) : view.rec[k] = static[k]
        /\ \A k \in (DOMAIN static) \cap Excluded(view) :
              view.rec = Rebuilt(view, options, Without(static, {k}))

\* A finished run with a static username pair: it is on the remote record and
\* not on the server node's.
StaticPairsWitness ==
    /\ pc = "done"
    /\ ServerRecordPresent
    /\ username \in DOMAIN static
    /\ osArch \in DOMAIN static
    /\ "web1" \in RemoteHosts
    /\ resources["web1"][username] = static[username]
    /\ resources["web1"][osArch] # static[osArch]
    /\ resources[_server_node_name][username] = Str(options.server_node_user)

----------------------------------------------------------------------------
(* C5: a host's tags are the union over the tag paths of: nothing for an   *)
(* absent or null path, the value for a scalar, the scalar elements for a   *)
(* sequence, nothing for a mapping; the record has a tags field exactly     *)
(* when that set is not empty, and the field holds each tag once.           *)
TagsOfValue(value) ==
    IF value.t \in {"absent", "null", "dict"} THEN {}
    ELSE IF value.t = "list"
         THEN {Plain(x) : x \in {y \in ElementsOf(value.v) : ~IsNested(y)}}
         ELSE {Plain(value)}

ExpectedTags(grains) == UNION {TagsOfValue(Resolve(grains, path)) : path \in options.tags}

\* C5: the tags field of every record is exactly the expected tags, each once,
\* and is absent when there are none.
TagsAreUnionOfPaths ==
    \A view \in Views :
        /\ tagsKey \in DOMAIN view.rec <=> ExpectedTags(view.grains) # {}
        /\ tagsKey \in DOMAIN view.rec =>
              /\ view.rec[tagsKey].t = "list"
              /\ ElementsOf(view.rec[tagsKey].v) = ExpectedTags(view.grains)
              /\ Len(view.rec[tagsKey].v) = Cardinality(ExpectedTags(view.grains))

\* A Linux host tagged from a list with repeated and nested elements and from
\* a unicode scalar, and a SunOS host whose only tag path is a mapping.
TagsWitness ==
    /\ pc = "done"
    /\ options.tags = {roles, env}
    /\ "web1" \in RemoteHosts
    /\ mine["web1"] = LinuxGrains
    /\ ElementsOf(resources["web1"][tagsKey].v) = {Str("web"), Str("db"), Str("prod")}
    /\ ServerRecordPresent
    /\ local_grains = SunGrains
    /\ tagsKey \notin DOMAIN resources[_server_node_name]

----------------------------------------------------------------------------
(* C6: for a configured attribute path p with output key k: an absent path  *)
(* gives record[k] = '', a scalar gives record[k] = the scalar, a mapping   *)
(* or sequence leaves k out and the rest of the record as if p had not been *)
(* configured.                                                              *)
OthersThan(path) == SelectSeq(options.attributes, LAMBDA x : x # path)

AsIfNotConfigured(view, path) ==
    view.rec = Rebuilt(view, [options EXCEPT !.attributes = OthersThan(path)], static)

\* C6: absent gives '', a scalar gives the scalar, a nested value leaves the
\* key out and the record as if the path had not been configured.
AttributeOutcomes ==
    \A view \in RemoteViews : \A path \in AttrSet :
        LET value == Resolve(view.grains, path)
            key == AttributeKey(path) IN
        /\ value.t = "absent" => (key \in DOMAIN view.rec /\ view.rec[key] = Str(""))
        /\ IsScalar(value) => (key \in DOMAIN view.rec /\ view.rec[key] = Plain(value))
        /\ IsNested(value) => (key \notin DOMAIN view.rec /\ AsIfNotConfigured(view, path))

\* The output key of a path is also written by a static pair or another path.
KeyTakenOver(view, path) ==
    \/ AttributeKey(path) \in (DOMAIN static) \ Excluded(view)
    \/ \E other \in AttrSet : other # path /\ AttributeKey(other) = AttributeKey(path)

\* The fields a record has before any attribute is added.
PresetFields(view) ==
    IF view.server THEN Required \cup ignore_servernode ELSE Required

\* C6 as amended: the three outcomes hold for a path whose output key is not
\* also the key of a static pair merged into the record nor the output key of
\* another configured path; a mapping or sequence always leaves the record as
\* if p had not been configured.  Checked of the hosts' records and of the
\* server node's, where a nested username or description path leaves the
\* preset field in place.
AttributeOutcomesUnlessOverridden ==
    \A view \in Views : \A path \in AttrSet :
        LET value == Resolve(view.grains, path)
            key == AttributeKey(path) IN
        /\ (value.t = "absent" /\ ~KeyTakenOver(view, path)) =>
              (key \in DOMAIN view.rec /\ view.rec[key] = Str(""))
        /\ (IsScalar(value) /\ ~KeyTakenOver(view, path)) =>
              (key \in DOMAIN view.rec /\ view.rec[key] = Plain(value))
        /\ IsNested(value) => AsIfNotConfigured(view, path)
        /\ (IsNested(value) /\ ~KeyTakenOver(view, path) /\ key \notin PresetFields(view)) =>
              key \notin DOMAIN view.rec

\* A Windows host with a mapping under env and a scalar under a_b.
AttributeWitness ==
    /\ pc = "done"
    /\ "web1" \in RemoteHosts
    /\ mine["web1"] = WindowsGrains
    /\ AttrSet = {env, a_under_b}
    /\ static = EmptyDict
    /\ env \notin DOMAIN resources["web1"]
    /\ resources["web1"][a_under_b] = Str("2")
    /\ Required \subseteq DOMAIN resources["web1"]

\* An absent path on a host, defaulting to the empty string.
AbsentAttributeWitness ==
    /\ pc = "done"
    /\ "web1" \in RemoteHosts
    /\ mine["web1"] = SunGrains
    /\ username \in AttrSet
    /\ username \notin DOMAIN static
    /\ resources["web1"][username] = Str("")

----------------------------------------------------------------------------
(* C7: the output key of the attribute derived from path p is p with every  *)
(* occurrence of the configured path delimiter replaced by an underscore.   *)
OutputKeyUsesDelimiter ==
    \A view \in Views : \A path \in AttrSet :
        LET value == Resolve(view.grains, path)
            key == Replace(path, options.delimiter, "_") IN
        (~IsNested(value) /\ ~KeyTakenOver(view, path)) =>
            /\ key \in DOMAIN view.rec
            /\ view.rec[key] = IF value.t = "absent" THEN Str("") ELSE Plain(value)

----------------------------------------------------------------------------
(* C8: a run either returns a record for every host of the mine result     *)
(* (and the server node's when the flag is on) or fails without output: a   *)
(* raising mine.get or a snapshot without a required grain ends the run,    *)
(* no record lacks a required field and nothing is printed.                 *)
Complete(doc) ==
    /\ DOMAIN doc = (DOMAIN mine) \cup
                       (IF options.include_server_node THEN {_server_node_name} ELSE {})
    /\ \A m \in DOMAIN doc : Required \subseteq DOMAIN doc[m]

\* C8: records are never partial, a returned set is complete, and only a
\* completed run prints.
AllOrNothing ==
    /\ \A m \in DOMAIN resources : Required \subseteq DOMAIN resources[m]
    /\ Returned =>
          /\ Complete(resources)
          /\ error = ""
          /\ \A m \in DOMAIN mine : MinionRequired \subseteq DOMAIN mine[m]
          /\ options.include_server_node => LocalRequired \subseteq DOMAIN local_grains
    /\ stdout.printed => (pc = "done" /\ stdout.doc = resources /\ Complete(stdout.doc))
    /\ pc = "failed" => (~stdout.printed /\ error # "" /\ exit_code = <<1>>)
    /\ error = "TransportError" => resources = EmptyDict
    /\ pc = "done" => stdout.printed

\* A run that failed on the second host's missing grain, with the first host's
\* record built and nothing printed.
PartialFailureWitness ==
    /\ pc = "failed"
    /\ error = "KeyError"
    /\ "localhost" \in RemoteHosts
    /\ "web1" \in todo
    /\ mine["web1"] = BrokenGrains
    /\ ~stdout.printed

\* A run that printed the records of two hosts and the server node.
FullOutputWitness ==
    /\ pc = "done"
    /\ stdout.printed
    /\ options.include_server_node
    /\ DOMAIN stdout.doc = {"web1", "localhost"}

----------------------------------------------------------------------------
(* C9: osFamily is "unix" for kernel "Linux", "windows" for "Windows" and   *)
(* the kernel itself otherwise; osArch is "amd64" for "x86_64" and the      *)
(* architecture itself otherwise; osName is the kernel unmapped; on remote  *)
(* hosts and on the server node alike.                                      *)
FamilyOf(k) ==
    CASE k = "Linux" -> "unix"
      [] k = "Windows" -> "windows"
      [] OTHER -> k

ArchOf(a) == CASE a = "x86_64" -> "amd64" [] OTHER -> a

\* C9: every record's osFamily, osArch and osName follow the mapping.
OsMapping ==
    \A view \in Views :
        /\ view.rec[osFamily] = Str(FamilyOf(view.grains[kernel].v))
        /\ view.rec[osArch] = Str(ArchOf(view.grains[osarch].v))
        /\ view.rec[osName] = view.grains[kernel]

\* A SunOS host and a Linux server node.
OsMappingWitness ==
    /\ pc = "done"
    /\ "web1" \in RemoteHosts
    /\ mine["web1"] = SunGrains
    /\ resources["web1"][osFamily] = Str("SunOS")
    /\ resources["web1"][osArch] = Str("i386")
    /\ ServerRecordPresent
    /\ local_grains = LinuxGrains
    /\ resources[_server_node_name][osFamily] = Str("unix")
    /\ resources[_server_node_name][osArch] = Str("amd64")

\* A Windows host.
OsMappingWindowsWitness ==
    /\ pc = "done"
    /\ "web1" \in RemoteHosts
    /\ mine["web1"] = WindowsGrains
    /\ resources["web1"][osFamily] = Str("windows")
    /\ resources["web1"][osArch] = Str("AMD64")

----------------------------------------------------------------------------
(* C10: a static pair whose key is the output key of a configured attribute *)
(* wins over the grain-derived value, on remote hosts and on the server     *)
(* node alike; the tags field comes from tag mapping only.                  *)
MergePrecedence ==
    \A view \in Views :
        /\ \A k \in DOMAIN static :
              (\E path \in AttrSet : AttributeKey(path) = k) =>
                  (k \in DOMAIN view.rec /\ view.rec[k] = static[k])
        /\ tagsKey \in DOMAIN view.rec =>
              view.rec[tagsKey] =
                  List(_create_tags(options.tags, view.grains, options.delimiter))

====
